---- MODULE Spec2Model ----
(***************************************************************************)
(* Model of file-copy-helper.py: the transfer engine (compareFiles,        *)
(* compareDirs, ignoredNames, transferFile, transferDir, makeTransfer)     *)
(* and the line driver (parseLine, the main loop over the lines).          *)
(*                                                                         *)
(* The filesystem is a tree of nodes addressed by absolute paths           *)
(* (sequences of names).  A node is a regular file (data, mtime), a        *)
(* directory (entries), a special file (a fifo) or a symbolic link (its    *)
(* target path).  The library calls the script makes (os, shutil, filecmp, *)
(* fnmatch) are operators on that tree with their POSIX behaviour,         *)
(* exceptions included: every mutating operator returns the new tree and   *)
(* whether it raised.                                                      *)
(***************************************************************************)
EXTENDS Integers, Sequences, FiniteSets, TLC

\* ------------------------------------------------------------------ bounds
\* file contents are 1..MaxData, modification times 1..MaxTime
MaxData == 3
MaxTime == 2
\* the longest batch of lines the driver is given
MaxLines == 3

\* ------------------------------------------------------------------- names
\* every name that can appear in a directory, in the order list.sort() gives
NameOrder == <<"a", "ab", "d", "s">>
AllNames == {NameOrder[i] : i \in 1..Len(NameOrder)}
\* the names used inside the source and destination directories
EntNames == {"a", "ab"}
\* the characters of a name, as fnmatch sees them
NameChars(n) ==
    CASE n = "a" -> <<"a">>
      [] n = "ab" -> <<"a", "b">>
      [] n = "d" -> <<"d">>
      [] n = "s" -> <<"s">>

\* the orders os.listdir / os.scandir may list a directory in
ListOrders == {<<"a", "ab", "d", "s">>, <<"s", "d", "ab", "a">>}

\* ------------------------------------------------------------------- nodes
NoEnts == [n \in {} |-> 0]
NoNode == [k |-> "none", d |-> 0, t |-> 0, e |-> NoEnts, to |-> <<>>]
File(d, t) == [k |-> "file", d |-> d, t |-> t, e |-> NoEnts, to |-> <<>>]
Dir(e) == [k |-> "dir", d |-> 0, t |-> 0, e |-> e, to |-> <<>>]
Special == [k |-> "special", d |-> 0, t |-> 0, e |-> NoEnts, to |-> <<>>]
Link(to) == [k |-> "link", d |-> 0, t |-> 0, e |-> NoEnts, to |-> to]
\* st_size of a file: contents 1 and 2 have the same size, 3 a larger one
Size(d) == (d + 1) \div 2

\* ------------------------------------------------------- reading the tree
\* lstat: the node at path p itself (a link is not followed); NoNode when a
\* component is missing or is not a directory
RECURSIVE Get(_, _)
Get(node, p) ==
    IF p = <<>> THEN node
    ELSE IF node.k = "dir" /\ Head(p) \in DOMAIN node.e
         THEN Get(node.e[Head(p)], Tail(p))
         ELSE NoNode

\* os.stat: links are followed; NoNode is a stat failure (OSError)
RECURSIVE Stat(_, _)
Stat(fs, p) ==
    LET n == Get(fs, p) IN IF n.k = "link" THEN Stat(fs, n.to) ELSE n

\* the path a write through p lands on (links followed)
RECURSIVE RealPath(_, _)
RealPath(fs, p) ==
    LET n == Get(fs, p) IN IF n.k = "link" THEN RealPath(fs, n.to) ELSE p

exists(fs, p) == Stat(fs, p).k # "none"
isfile(fs, p) == Stat(fs, p).k = "file"
isdir(fs, p) == Stat(fs, p).k = "dir"
islink(fs, p) == Get(fs, p).k = "link"
lexists(fs, p) == Get(fs, p).k # "none"
Parent(p) == SubSeq(p, 1, Len(p) - 1)
Base(p) == p[Len(p)]

\* os.listdir(p) in the listing order ord (p is a directory)
listdir(fs, p, ord) ==
    LET names == DOMAIN Stat(fs, p).e
        In(n) == n \in names
    IN SelectSeq(ord, In)

Range(s) == {s[i] : i \in 1..Len(s)}

\* ------------------------------------------------------- writing the tree
RECURSIVE Put(_, _, _)
Put(node, p, new) ==
    IF p = <<>> THEN new
    ELSE LET h == Head(p)
             old == IF h \in DOMAIN node.e THEN node.e[h] ELSE NoNode
         IN [node EXCEPT !.e = [n \in DOMAIN node.e \cup {h} |->
                                   IF n = h THEN Put(old, Tail(p), new)
                                   ELSE node.e[n]]]

RECURSIVE Del(_, _)
Del(node, p) ==
    LET h == Head(p) IN
    IF Len(p) = 1
    THEN [node EXCEPT !.e = [n \in DOMAIN node.e \ {h} |-> node.e[n]]]
    ELSE [node EXCEPT !.e = [n \in DOMAIN node.e |->
                                IF n = h THEN Del(node.e[h], Tail(p))
                                ELSE node.e[n]]]

\* --------------------------------------------------------------- fnmatch
\* fnmatch.fnmatch on character sequences: * any run, ? any one character
RECURSIVE Match(_, _)
Match(pat, str) ==
    IF pat = <<>> THEN str = <<>>
    ELSE IF Head(pat) = "*"
         THEN Match(Tail(pat), str) \/ (str # <<>> /\ Match(pat, Tail(str)))
         ELSE /\ str # <<>>
              /\ (Head(pat) = "?" \/ Head(pat) = Head(str))
              /\ Match(Tail(pat), Tail(str))

\* fnmatch.filter(names, pattern), as the set of the names kept
fnfilter(names, pattern) == {n \in names : Match(pattern, NameChars(n))}

\* ignoredNames(path, patterns): the names in path matching any pattern
ignoredNames(fs, path, patterns) ==
    LET names == DOMAIN Stat(fs, path).e
    IN UNION {fnfilter(names, patterns[i]) : i \in 1..Len(patterns)}

\* ------------------------------------------------------------ comparators
\* filecmp.cmp(f1, f2, shallow): "same", "diff", or "error" (a stat failure)
compareFiles(fs, file1, file2, shallow) ==
    LET s1 == Stat(fs, file1)
        s2 == Stat(fs, file2)
    IN IF s1.k = "none" \/ s2.k = "none" THEN "error"
       ELSE IF s1.k # "file" \/ s2.k # "file" THEN "diff"
       ELSE IF shallow /\ Size(s1.d) = Size(s2.d) /\ s1.t = s2.t THEN "same"
       ELSE IF Size(s1.d) # Size(s2.d) THEN "diff"
       ELSE IF s1.d = s2.d THEN "same" ELSE "diff"

\* filter in place of filterfalse: the names of list that are in other
OnlyIn_filter(list, other) ==
    LET Common(x) == x \in Range(other) IN SelectSeq(list, Common)

\* filterfalse(other.__contains__, list): the names of list not in other
OnlyIn(list, other) ==
    LET Missing(x) == x \notin Range(other) IN SelectSeq(list, Missing)

\* compareDirs(dir1, dir2, shallow) on two directories
RECURSIVE compareDirs(_, _, _, _)
compareDirs(fs, dir1, dir2, shallow) ==
    LET dir1_list == listdir(fs, dir1, NameOrder)
        dir2_list == listdir(fs, dir2, NameOrder)
        InB(x) == x \in Range(dir2_list)
        common == SelectSeq(dir1_list, InB)
        dir1_only == OnlyIn(dir1_list, dir2_list)
        dir2_only == OnlyIn(dir2_list, dir1_list)
        a_stat(x) == Stat(fs, dir1 \o <<x>>)
        b_stat(x) == Stat(fs, dir2 \o <<x>>)
        ok(x) == a_stat(x).k # "none" /\ b_stat(x).k # "none"
        IsDir(x) == ok(x) /\ a_stat(x).k = b_stat(x).k /\ a_stat(x).k = "dir"
        IsFile(x) == ok(x) /\ a_stat(x).k = b_stat(x).k /\ a_stat(x).k = "file"
        IsFunny(x) == ~IsDir(x) /\ ~IsFile(x)
        common_dirs == SelectSeq(common, IsDir)
        common_files == SelectSeq(common, IsFile)
        common_funny == SelectSeq(common, IsFunny)
        cmpOf(x) == compareFiles(fs, dir1 \o <<x>>, dir2 \o <<x>>, shallow)
        IsDiff(x) == cmpOf(x) = "diff"
        IsErr(x) == cmpOf(x) = "error"
        diff_files == SelectSeq(common_files, IsDiff)
        funny_files == SelectSeq(common_files, IsErr)
    IN IF dir1_only # <<>> \/ dir2_only # <<>> THEN FALSE
       ELSE IF common_funny # <<>> THEN FALSE
       ELSE IF diff_files # <<>> \/ funny_files # <<>> THEN FALSE
       ELSE \A i \in 1..Len(common_dirs) :
                compareDirs(fs, dir1 \o <<common_dirs[i]>>,
                            dir2 \o <<common_dirs[i]>>, shallow)

\* ------------------------------------------------- os / shutil operations
\* the outcome of a library call: the tree it leaves, and ok = FALSE when it
\* raised (OSError, shutil.Error)
R(fs, ok) == [fs |-> fs, ok |-> ok]

\* os.remove(p): unlinks a file, fifo or link; raises on a directory or a
\* missing path
os_remove(fs, p) ==
    LET n == Get(fs, p)
    IN IF n.k = "none" \/ n.k = "dir" THEN R(fs, FALSE) ELSE R(Del(fs, p), TRUE)

\* os.mkdir(p)
os_mkdir(fs, p) ==
    IF lexists(fs, p) \/ ~isdir(fs, Parent(p)) THEN R(fs, FALSE)
    ELSE R(Put(fs, p, Dir(NoEnts)), TRUE)

\* os.makedirs(p, exist_ok): missing ancestors first, then p itself
RECURSIVE os_makedirs(_, _, _)
os_makedirs(fs, p, exist_ok) ==
    LET head == Parent(p)
        up == IF Len(p) > 1 /\ ~exists(fs, head)
              THEN os_makedirs(fs, head, exist_ok) ELSE R(fs, TRUE)
        made == os_mkdir(up.fs, p)
    IN IF ~up.ok THEN up
       ELSE IF made.ok THEN made
       ELSE IF exist_ok /\ isdir(up.fs, p) THEN R(up.fs, TRUE)
       ELSE R(up.fs, FALSE)

\* shutil.copy2(src, dst): content and mtime; into dst when dst is a directory
shutil_copy2(fs, src, dst) ==
    LET dst1 == IF isdir(fs, dst) THEN dst \o <<Base(src)>> ELSE dst
        s == Stat(fs, src)
        o == Stat(fs, dst1)
        target == RealPath(fs, dst1)
    IN IF s.k # "none" /\ o.k # "none" /\ RealPath(fs, src) = target
       THEN R(fs, FALSE)                          \* SameFileError
       ELSE IF s.k = "special" \/ o.k = "special"
       THEN R(fs, FALSE)                          \* SpecialFileError
       ELSE IF s.k # "file" THEN R(fs, FALSE)     \* open(src) fails
       ELSE IF o.k = "dir" \/ ~isdir(fs, Parent(target))
       THEN R(fs, FALSE)                          \* open(dst, 'wb') fails
       ELSE R(Put(fs, target, File(s.d, s.t)), TRUE)

\* os.link(src, dst): a second name for the node at src
os_link(fs, src, dst) ==
    LET n == Get(fs, src)
    IN IF lexists(fs, dst) \/ n.k = "none" \/ n.k = "dir"
          \/ ~isdir(fs, Parent(dst))
       THEN R(fs, FALSE)
       ELSE R(Put(fs, dst, n), TRUE)

\* os.symlink(src, dst): dst becomes a link whose target is the path src
os_symlink(fs, src, dst) ==
    IF lexists(fs, dst) \/ ~isdir(fs, Parent(dst)) THEN R(fs, FALSE)
    ELSE R(Put(fs, dst, Link(src)), TRUE)

\* shutil.move(src, dst) of a non-directory: os.rename, into dst when dst is
\* a directory (and then only if nothing of that name is there)
shutil_move(fs, src, dst) ==
    LET into == isdir(fs, dst)
        real_dst == IF into THEN dst \o <<Base(src)>> ELSE dst
        n == Get(fs, src)
    IN IF into /\ exists(fs, real_dst) THEN R(fs, FALSE)
       ELSE IF n.k = "none" \/ ~isdir(fs, Parent(real_dst)) THEN R(fs, FALSE)
       ELSE R(Del(Put(fs, real_dst, n), src), TRUE)

\* shutil.rmtree(p): p is a real directory
shutil_rmtree(fs, p) ==
    IF Get(fs, p).k = "dir" THEN R(Del(fs, p), TRUE) ELSE R(fs, FALSE)

\* the copy_function a method hands to copytree / uses on one file
CopyFunction(fn, fs, src, dst) ==
    CASE fn = "link" -> os_link(fs, src, dst)
      [] fn = "symlink" -> os_symlink(fs, src, dst)
      [] fn = "copy" -> shutil_copy2(fs, src, dst)
      [] fn = "move" -> shutil_move(fs, src, dst)

\* shutil.copytree(src, dst, copy_function, dirs_exist_ok=True,
\* ignore=ignore_patterns(*patterns)): errors of the entries are collected,
\* the other entries are still copied, and Error is raised at the end
RECURSIVE shutil_copytree(_, _, _, _, _, _)
RECURSIVE CopyEntries(_, _, _, _, _, _, _, _)
RECURSIVE CopyRest(_, _, _, _, _, _, _, _)
RECURSIVE CopyInto(_, _, _, _, _, _, _)
shutil_copytree(fs, src, dst, fn, patterns, ord) ==
    CopyInto(os_makedirs(fs, dst, TRUE), src, dst, fn, patterns, ord,
             listdir(fs, src, ord))

\* the entries not ignored are copied once dst is there (made)
CopyInto(made, src, dst, fn, patterns, ord, entries) ==
    LET ignored_names ==
            UNION {fnfilter(Range(entries), patterns[i]) : i \in 1..Len(patterns)}
        Kept(x) == x \notin ignored_names
    IN IF ~made.ok THEN made
       ELSE CopyEntries(made.fs, src, dst, fn, patterns, ord,
                        SelectSeq(entries, Kept), TRUE)

CopyEntries(fs, src, dst, fn, patterns, ord, todo, ok) ==
    IF todo = <<>> THEN R(fs, ok)
    ELSE CopyRest(IF isdir(fs, src \o <<Head(todo)>>)
                  THEN shutil_copytree(fs, src \o <<Head(todo)>>,
                                       dst \o <<Head(todo)>>, fn, patterns, ord)
                  ELSE CopyFunction(fn, fs, src \o <<Head(todo)>>,
                                    dst \o <<Head(todo)>>),
                  src, dst, fn, patterns, ord, todo, ok)

\* the loop goes on after the entry whose outcome is r
CopyRest(r, src, dst, fn, patterns, ord, todo, ok) ==
    CopyEntries(r.fs, src, dst, fn, patterns, ord, Tail(todo), ok /\ r.ok)

\* ---------------------------------------------------------------- methods
Copy == "copy"
Move == "move"
LinkM == "link"
Symlink == "symlink"
Methods == {Copy, Move, LinkM, Symlink}

\* the outcome of a transfer: the tree, the Response ("Raise" when an
\* exception leaves the call), and the tree as the delete-destination step
\* left it (cleared = TRUE when that step ran)
T(fs, res) == [fs |-> fs, res |-> res, cleared |-> FALSE, mid |-> NoNode]

\* transferFile up to the method dispatch: the destination is compared and
\* removed, or its directory made; res = "go" when the dispatch is reached
Prepared(r) == T(r.fs, IF r.ok THEN "go" ELSE "Raise")
\* the comparison is never consulted: an existing destination is always
\* removed
prepareDst_forced(fs, src, dst, force, cmp_) ==
    IF exists(fs, dst) THEN Prepared(os_remove(fs, dst))
    ELSE IF ~exists(fs, Parent(dst))
         THEN Prepared(os_makedirs(fs, Parent(dst), FALSE))
         ELSE T(fs, "go")

prepareDst(fs, src, dst, force, cmp_) ==
    IF exists(fs, dst)
    THEN IF ~force /\ cmp_ = "error" THEN T(fs, "Raise")
         ELSE IF ~force /\ cmp_ = "same" THEN T(fs, "Skip")
         ELSE Prepared(os_remove(fs, dst))
    ELSE IF ~exists(fs, Parent(dst))
         THEN Prepared(os_makedirs(fs, Parent(dst), FALSE))
         ELSE T(fs, "go")

Transferred(done) == T(done.fs, IF done.ok THEN "Ok" ELSE "Raise")
dispatch(pre, src, dst, method) ==
    IF pre.res # "go" THEN pre
    ELSE IF method \in Methods
         THEN Transferred(CopyFunction(method, pre.fs, src, dst))
         ELSE T(pre.fs, "UnknownMethod")

\* transferFile(src, dst, method, force)
transferFile(fs, src, dst, method, force) ==
    dispatch(prepareDst(fs, src, dst, force, compareFiles(fs, src, dst, TRUE)),
             src, dst, method)

\* the delete-destination step of transferDir: every listed entry of dst not
\* in the keep-set is unlinked (file, link) or removed recursively (directory)
RECURSIVE ClearEntries(_, _, _)
RECURSIVE ClearRest(_, _, _)
ClearEntries(fs, dst, filenames) ==
    IF filenames = <<>> THEN R(fs, TRUE)
    ELSE ClearRest(IF isfile(fs, dst \o <<Head(filenames)>>)
                      \/ islink(fs, dst \o <<Head(filenames)>>)
                   THEN os_remove(fs, dst \o <<Head(filenames)>>)
                   ELSE IF isdir(fs, dst \o <<Head(filenames)>>)
                        THEN shutil_rmtree(fs, dst \o <<Head(filenames)>>)
                        ELSE R(fs, TRUE),
                   dst, filenames)

ClearRest(r, dst, filenames) ==
    IF r.ok THEN ClearEntries(r.fs, dst, Tail(filenames)) ELSE r

deleteDst(fs, dst, keeppatterns, ord) ==
    LET keep_names == ignoredNames(fs, dst, keeppatterns)
        NotKept(f) == f \notin keep_names
    IN ClearEntries(fs, dst, SelectSeq(listdir(fs, dst, ord), NotKept))

\* the only-files loop of transferDir: transferFile on each file name, with
\* the default force; the first response that is not Ok is returned
RECURSIVE TransferFiles(_, _, _, _, _)
RECURSIVE TransferRest(_, _, _, _, _)
TransferFiles(fs, src, dst, method, filenames) ==
    IF filenames = <<>> THEN T(fs, "Ok")
    ELSE TransferRest(transferFile(fs, src \o <<Head(filenames)>>,
                                   dst \o <<Head(filenames)>>, method, FALSE),
                      src, dst, method, filenames)

TransferRest(resp, src, dst, method, filenames) ==
    IF resp.res # "Ok" THEN resp
    ELSE TransferFiles(resp.fs, src, dst, method, Tail(filenames))

\* the names the only-files mode checks against the ignore-set: the test
\* "isfile(f) and f not in ignored_names" reaches its second half for these
IgnoreChecked(fs, src) == {f \in DOMAIN Stat(fs, src).e : isfile(fs, src \o <<f>>)}

\* the ignore-set is not consulted: every regular file is transferred
onlyFiles_noignore(fs, src, dst, method, ignorepatterns, ord) ==
    LET Wanted(f) == f \in IgnoreChecked(fs, src)
    IN TransferFiles(fs, src, dst, method, SelectSeq(listdir(fs, src, ord), Wanted))

onlyFiles(fs, src, dst, method, ignorepatterns, ord) ==
    LET ignored_names == ignoredNames(fs, src, ignorepatterns)
        Wanted(f) == f \in IgnoreChecked(fs, src) /\ f \notin ignored_names
    IN TransferFiles(fs, src, dst, method, SelectSeq(listdir(fs, src, ord), Wanted))

\* the source goes once the move-copytree has returned (copied)
Removed(gone) == T(gone.fs, IF gone.ok THEN "Ok" ELSE "Raise")
treeCopied(copied, src, method) ==
    IF ~copied.ok THEN T(copied.fs, "Raise")
    ELSE IF method # Move THEN T(copied.fs, "Ok")
    ELSE Removed(shutil_rmtree(copied.fs, src))

wholeTree(fs, src, dst, method, ignorepatterns, ord) ==
    IF method \notin Methods THEN T(fs, "UnknownMethod")
    ELSE treeCopied(shutil_copytree(fs, src, dst, method, ignorepatterns, ord),
                    src, method)

\* the transfer itself, on the tree the delete-destination step left (c)
WithMid(t, clearing, mid) ==
    [fs |-> t.fs, res |-> t.res, cleared |-> clearing,
     mid |-> IF clearing THEN mid ELSE NoNode]
transferInto(c, clearing, src, dst, method, ignorepatterns, onlyfiles, ord) ==
    IF ~c.ok THEN T(c.fs, "Raise")
    ELSE WithMid(IF onlyfiles
                 THEN onlyFiles(c.fs, src, dst, method, ignorepatterns, ord)
                 ELSE wholeTree(c.fs, src, dst, method, ignorepatterns, ord),
                 clearing, c.fs)

\* transferDir(src, dst, method, force, ignorepatterns, onlyfiles, deletedst,
\* keeppatterns); src is a directory
transferDir(fs, src, dst, method, force, ignorepatterns, onlyfiles, deletedst, keeppatterns, ord) ==
    LET there == exists(fs, dst)
        \* os.listdir(dst) raises when dst is not a directory
        cmpRaises == there /\ ~force /\ ~isdir(fs, dst)
        skip == there /\ ~force /\ isdir(fs, dst) /\ compareDirs(fs, src, dst, TRUE)
        clearing == there /\ deletedst
        clearRaises == clearing /\ ~isdir(fs, dst)
    IN IF cmpRaises THEN T(fs, "Raise")
       ELSE IF skip THEN T(fs, "Skip")
       ELSE IF clearRaises THEN T(fs, "Raise")
       ELSE transferInto(IF clearing
                         THEN deleteDst(fs, dst, keeppatterns, ord)
                         ELSE R(fs, TRUE),
                         clearing, src, dst, method, ignorepatterns,
                         onlyfiles, ord)

\* the source is tested with lexists: a dangling link counts as existing
makeTransfer_lexists(fs, i, ord) ==
    IF lexists(fs, i.src)
    THEN IF isfile(fs, i.src) \/ islink(fs, i.src)
         THEN transferFile(fs, i.src, i.dst, i.method, i.force)
         ELSE IF isdir(fs, i.src)
              THEN transferDir(fs, i.src, i.dst, i.method, i.force,
                               i.ignorepatterns, i.onlyfiles, i.deletedst,
                               i.keeppatterns, ord)
              ELSE T(fs, "UnknownType")
    ELSE T(fs, "SourceNotExist")

\* makeTransfer(src, dst, method, force, ignorepatterns, onlyfiles,
\* deletedst, keeppatterns), on the instruction record i
makeTransfer(fs, i, ord) ==
    IF exists(fs, i.src)
    THEN IF isfile(fs, i.src) \/ islink(fs, i.src)
         THEN transferFile(fs, i.src, i.dst, i.method, i.force)
         ELSE IF isdir(fs, i.src)
              THEN transferDir(fs, i.src, i.dst, i.method, i.force,
                               i.ignorepatterns, i.onlyfiles, i.deletedst,
                               i.keeppatterns, ord)
              ELSE T(fs, "UnknownType")
    ELSE T(fs, "SourceNotExist")

\* ------------------------------------------------------------------ state
VARIABLES
    fs,      \* the filesystem tree (the root directory node)
    pc,      \* where the run is
    ins,     \* the instruction of the last transfer
    before,  \* the tree as it was when the last transfer was called
    out,     \* what the last transfer returned: res, cleared, mid
    first,   \* the response of the run before the last one
    cmp,     \* the last results of compareDirs, both ways round
    stat,    \* Statistics
    left     \* the lines of the batch not parsed yet

vars == <<fs, pc, ins, before, out, first, cmp, stat, left>>

\* --------------------------------------------------- initial filesystems
S == <<"s">>
D == <<"d">>
Files == {File(d, t) : d \in 1..MaxData, t \in 1..MaxTime}
\* a dangling symbolic link: its target's directory does not exist
Broken == Link(<<"void", "x">>)
SubDirs == {Dir(NoEnts)} \cup {Dir("a" :> f) : f \in {File(1, 1), File(3, 1)}}
\* what the destination may hold as "a", what the source may, and what
\* either may hold as "ab" (NoNode: no such entry)
OptsA == {NoNode, Special, Broken} \cup Files \cup SubDirs
SrcOptsA == {NoNode, Special, Broken, File(1, 1)} \cup SubDirs
OptsB == {NoNode, File(1, 1), Dir("a" :> File(1, 1))}
\* a directory holding x as "a" and y as "ab"
DirOf(x, y) ==
    LET Ent(n) == IF n = "a" THEN x ELSE y
    IN Dir([n \in {m \in EntNames : Ent(m) # NoNode} |-> Ent(n)])
SrcTops == {NoNode, File(1, 1), Special, Broken}
               \cup {DirOf(x, y) : x \in SrcOptsA, y \in OptsB}
DstTops == {NoNode, File(1, 1), Special, Broken}
               \cup {DirOf(x, y) : x \in OptsA, y \in OptsB}
\* the root directory holding src as "s" and dst as "d"
RootOf(src, dst) ==
    LET Ent(n) == IF n = "s" THEN src ELSE dst
    IN Dir([n \in {m \in {"s", "d"} : Ent(m) # NoNode} |-> Ent(n)])
InitFS == {RootOf(x, y) : x \in SrcTops, y \in DstTops}

\* ----------------------------------------------------------- instructions
IgnoreLists == {<<>>, <<<<"?">>>>, <<<<"*", "b">>, <<"?">>>>}
\* deletedst with its keeppatterns
ClearModes == {<<FALSE, <<>>>>, <<TRUE, <<>>>>, <<TRUE, <<<<"?">>>>>>}
AnyMethod == Methods \cup {"bogus"}
Ins(src, dst, m, f, ip, of, dk) ==
    [src |-> src, dst |-> dst, method |-> m, force |-> f,
     ignorepatterns |-> ip, onlyfiles |-> of, deletedst |-> dk[1],
     keeppatterns |-> dk[2]]
\* directory to directory with every option, and "a" to a name in the
\* destination or below a directory of it with the options at their default
DirInstructions(ms, fs_) ==
    {Ins(S, D, m, f, ip, of, dk) :
        m \in ms, f \in fs_, ip \in IgnoreLists, of \in BOOLEAN,
        dk \in ClearModes}
SubInstructions(ms, fs_) ==
    {Ins(S \o <<"a">>, dst, m, f, <<>>, FALSE, <<FALSE, <<>>>>) :
        dst \in {D \o <<"a">>, D \o <<"ab", "a">>}, m \in ms, f \in fs_}
Instructions ==
    DirInstructions(AnyMethod, BOOLEAN) \cup SubInstructions(AnyMethod, BOOLEAN)
NoIns == [src |-> <<>>, dst |-> <<>>, method |-> "", force |-> FALSE,
          ignorepatterns |-> <<>>, onlyfiles |-> FALSE, deletedst |-> FALSE,
          keeppatterns |-> <<>>]
NoOut == [res |-> "", cleared |-> FALSE, mid |-> NoNode]
NoStat == [correct_lines |-> 0, skipped_lines |-> 0, incorrect_lines |-> 0,
           total_lines |-> 0, succeeded_transfers |-> 0,
           skipped_transfers |-> 0, failed_transfers |-> 0]

Init ==
    /\ fs \in InitFS
    /\ pc = "idle"
    /\ ins = NoIns
    /\ before = NoNode
    /\ out = NoOut
    /\ first = ""
    /\ cmp = <<>>
    /\ stat = NoStat
    /\ left = 0

\* a transfer has returned r: the tree and what the caller sees
Returned(r) ==
    /\ fs' = r.fs
    /\ out' = [res |-> r.res, cleared |-> r.cleared, mid |-> r.mid]

\* one call of makeTransfer
Transfer(i, ord) ==
    /\ pc = "idle"
    /\ Returned(makeTransfer(fs, i, ord))
    /\ before' = fs
    /\ ins' = i
    /\ pc' = "once"
    /\ UNCHANGED <<first, cmp, stat, left>>

NextTransfer == \E i \in Instructions, ord \in ListOrders : Transfer(i, ord)
SpecTransfer == Init /\ [][NextTransfer]_vars

\* the same instruction once more, on the tree the first run left
Again(ord) ==
    /\ pc = "once"
    /\ Returned(makeTransfer(fs, ins, ord))
    /\ before' = fs
    /\ first' = out.res
    /\ pc' = "twice"
    /\ UNCHANGED <<ins, cmp, stat, left>>

CopyInstructions ==
    DirInstructions({Copy}, {FALSE}) \cup SubInstructions({Copy}, {FALSE})
NextTwice ==
    \/ \E i \in CopyInstructions, ord \in ListOrders : Transfer(i, ord)
    \/ \E ord \in ListOrders : Again(ord)
SpecTwice == Init /\ [][NextTwice]_vars

\* compareDirs on the two directories, both ways round
Compare(shallow) ==
    /\ pc = "idle"
    /\ isdir(fs, S) /\ isdir(fs, D)
    /\ cmp' = [ab |-> compareDirs(fs, S, D, shallow),
               ba |-> compareDirs(fs, D, S, shallow),
               shallow |-> shallow]
    /\ pc' = "compared"
    /\ UNCHANGED <<fs, ins, before, out, first, stat, left>>

NextCmp == \E shallow \in BOOLEAN : Compare(shallow)
SpecCmp == Init /\ [][NextCmp]_vars

\* ------------------------------------------------------------- the driver
\* a non-empty line is a comment (it starts with #), a line the line parser
\* rejects or whose input or output is empty ("bad"), or an instruction
CommentLine == [kind |-> "comment", ins |-> NoIns]
BadLine == [kind |-> "bad", ins |-> NoIns]
InsLine(i) == [kind |-> "ins", ins |-> i]
BatchInstructions ==
    {Ins(S, D, m, f, <<>>, of, <<FALSE, <<>>>>) :
        m \in {Copy, Move, "bogus"}, f \in BOOLEAN, of \in BOOLEAN}
    \cup SubInstructions({Copy, Symlink}, {FALSE})
Lines == {CommentLine, BadLine} \cup {InsLine(i) : i \in BatchInstructions}
BatchFS ==
    {RootOf(x, y) :
        x \in {NoNode, DirOf(File(1, 1), NoNode), DirOf(File(1, 1), File(1, 1))},
        y \in {NoNode, File(1, 1), DirOf(File(1, 1), NoNode),
               DirOf(Dir(NoEnts), NoNode)}}

InitMain ==
    /\ fs \in BatchFS
    /\ pc = "main"
    /\ ins = NoIns
    /\ before = NoNode
    /\ out = NoOut
    /\ first = ""
    /\ cmp = <<>>
    /\ stat = NoStat
    /\ left = 0

\* the main block: the non-empty lines are counted, then parsed one by one
ReadLines(n) ==
    /\ pc = "main"
    /\ stat' = [stat EXCEPT !.total_lines = @ + n]
    /\ left' = n
    /\ pc' = "lines"
    /\ UNCHANGED <<fs, ins, before, out, first, cmp>>

Bump(st, f) == [st EXCEPT ![f] = @ + 1]

\* the counters after makeTransfer returned res, or raised
Tally(st, res) ==
    LET counted == Bump(st, "correct_lines")
    IN CASE res = "Ok" -> Bump(counted, "succeeded_transfers")
         [] res \in {"SourceNotExist", "UnknownType", "UnknownMethod"} ->
                Bump(counted, "failed_transfers")
         [] res = "Skip" -> Bump(counted, "skipped_transfers")
         [] res = "Raise" -> Bump(counted, "incorrect_lines")

\* parseLine(line, lpars, lstat) on the next line of the batch
parseLine(line, ord) ==
    /\ pc = "lines"
    /\ left > 0
    /\ left' = left - 1
    /\ IF line.kind = "comment"
       THEN /\ stat' = Bump(stat, "skipped_lines")
            /\ UNCHANGED <<fs, ins, before, out>>
       ELSE IF line.kind = "bad"
       THEN /\ stat' = Bump(stat, "incorrect_lines")
            /\ UNCHANGED <<fs, ins, before, out>>
       ELSE /\ Returned(makeTransfer(fs, line.ins, ord))
            /\ before' = fs
            /\ ins' = line.ins
            /\ stat' = Tally(stat, out'.res)
    /\ UNCHANGED <<pc, first, cmp>>

\* the report after the last line
Report ==
    /\ pc = "lines"
    /\ left = 0
    /\ pc' = "done"
    /\ UNCHANGED <<fs, ins, before, out, first, cmp, stat, left>>

Next ==
    \/ \E n \in 0..MaxLines : ReadLines(n)
    \/ \E line \in Lines, ord \in ListOrders : parseLine(line, ord)
    \/ Report
Spec == InitMain /\ [][Next]_vars

\* ================================================================= claims
\* the entry named n of the directory at path dir, in tree f (lstat)
Entry(f, dir, n) == Get(f, dir \o <<n>>)
\* the names listed in the directory at path dir
NamesOf(f, dir) == DOMAIN Stat(f, dir).e
\* name n matches at least one pattern of the list
MatchesAny(n, patterns) ==
    \E i \in 1..Len(patterns) : Match(patterns[i], NameChars(n))
\* the last call was a directory transfer
DirTransfer == pc = "once" /\ isdir(before, ins.src)

\* the equivalence of two directory trees that compareDirs is to decide: the
\* same names, each a directory on both sides or a regular file on both
\* sides, the files passing the file comparator, the directories equivalent
RECURSIVE TreesEquivalent(_, _, _, _)
TreesEquivalent(f, A, B, shallow) ==
    /\ NamesOf(f, A) = NamesOf(f, B)
    /\ \A n \in NamesOf(f, A) :
           LET a == Stat(f, A \o <<n>>)
               b == Stat(f, B \o <<n>>)
           IN \/ /\ a.k = "dir" /\ b.k = "dir"
                 /\ TreesEquivalent(f, A \o <<n>>, B \o <<n>>, shallow)
              \/ /\ a.k = "file" /\ b.k = "file"
                 /\ compareFiles(f, A \o <<n>>, B \o <<n>>, shallow) = "same"

\* C1: whenever a transfer returns Skip, the call has modified nothing:
\* the tree after the call is the tree before it.
C1_SkipTouchesNothing ==
    (pc = "once" /\ out.res = "Skip") => fs = before

SourceCopied ==
    \/ isfile(before, ins.src)
    \/ /\ isdir(before, ins.src)
       /\ isdir(before, ins.dst)
       /\ TreesEquivalent(before, ins.src, ins.dst, TRUE)
C3_UnknownMethodTouchesNothing ==
    (pc = "once" /\ ins.method \notin Methods /\ out.res = "UnknownMethod")
        => fs = before

\* C4: when the source path does not exist, makeTransfer returns
\* SourceNotExist and the filesystem is unchanged.
C4_MissingSource ==
    (pc = "once" /\ ~exists(before, ins.src)) =>
        (out.res = "SourceNotExist" /\ fs = before)
\* a forced move with delete-destination of a missing or dangling source
\* onto an existing destination
C4_Witness ==
    /\ pc = "once"
    /\ ~exists(before, ins.src)
    /\ islink(before, ins.src)
    /\ isdir(before, ins.dst) /\ NamesOf(before, ins.dst) # {}
    /\ ins.method = Move /\ ins.force /\ ins.deletedst
    /\ out.res = "SourceNotExist"

\* C5: with force = true a transfer never returns Skip.
C5_ForceNeverSkips ==
    (pc = "once" /\ ins.force) => out.res # "Skip"

\* C6: a full-tree directory Move that does not succeed leaves the source
\* tree complete: no entry of the source has been removed.
C6_FailedMoveKeepsSource ==
    (DirTransfer /\ ins.method = Move /\ ~ins.onlyfiles /\ out.res # "Ok")
        => Get(fs, ins.src) = Get(before, ins.src)

\* C7: after the delete-destination step, every top-level destination entry
\* whose name matches a keep pattern is there unchanged and every other
\* top-level destination entry is gone.
C7_ClearKeepsExactlyTheKept ==
    (DirTransfer /\ out.cleared) =>
        \A n \in NamesOf(before, ins.dst) :
            IF MatchesAny(n, ins.keeppatterns)
            THEN Entry(out.mid, ins.dst, n) = Entry(before, ins.dst, n)
            ELSE Entry(out.mid, ins.dst, n) = NoNode

\* C8: in a directory transfer, a top-level source entry whose name matches
\* an ignore pattern, and in only-files mode every top-level source entry
\* that is not a regular file, is neither created nor overwritten in the
\* destination: the destination entry of that name is as it was, or has
\* been removed by the delete-destination step.
Excluded(n) ==
    \/ MatchesAny(n, ins.ignorepatterns)
    \/ ins.onlyfiles /\ Stat(before, ins.src \o <<n>>).k # "file"
C8_ExcludedNotTransferred ==
    DirTransfer =>
        \A n \in NamesOf(before, ins.src) :
            Excluded(n) =>
                \/ Entry(fs, ins.dst, n) = Entry(before, ins.dst, n)
                \/ out.cleared /\ Entry(fs, ins.dst, n) = NoNode
\* a transfer that returned Ok and wrote one entry while an ignored file and
\* an excluded subdirectory of the source stayed out of the destination
C8_Witness ==
    /\ DirTransfer
    /\ out.res = "Ok"
    /\ fs # before
    /\ \E n \in NamesOf(before, ins.src) :
           /\ MatchesAny(n, ins.ignorepatterns)
           /\ Entry(before, ins.src, n).k = "file"
           /\ Entry(fs, ins.dst, n) = NoNode
    /\ \E n \in NamesOf(before, ins.src) :
           /\ ~MatchesAny(n, ins.ignorepatterns)
           /\ Entry(fs, ins.dst, n) # Entry(before, ins.dst, n)

\* C9: compareDirs(A, B) is equal exactly when the two directories list the
\* same names, every name is a directory on both sides or a regular file on
\* both sides, the files pass the file comparator and the directories are
\* equal in the same sense; and it gives the same answer for (B, A).
C9_CompareDirsExact ==
    pc = "compared" =>
        /\ cmp.ab = TreesEquivalent(fs, S, D, cmp.shallow)
        /\ cmp.ab = cmp.ba
\* two equal trees with a file and a non-empty subdirectory in common
C9_Witness ==
    /\ pc = "compared"
    /\ cmp.ab
    /\ \E n, m \in NamesOf(fs, S) :
           /\ isfile(fs, S \o <<n>>)
           /\ isdir(fs, S \o <<m>>) /\ NamesOf(fs, S \o <<m>>) # {}

\* C10: after a batch, every non-empty line has been counted in exactly one
\* of correct_lines, skipped_lines and incorrect_lines.
C10_EveryLineCountedOnce ==
    pc = "done" =>
        stat.correct_lines + stat.skipped_lines + stat.incorrect_lines
            = stat.total_lines

====
